---- MODULE Spec2Model ----
(**************************************************************************)
(* Model of pipx's per-environment metadata store                         *)
(* (src/src/pipx/pipx_metadata_file.py): PackageInfo, PipxMetadata with   *)
(* to_dict / from_dict / _convert_legacy_metadata / write / read, and the *)
(* JSON encoding of Path values.                                          *)
(*                                                                        *)
(* Representation.                                                        *)
(*   - Python strings that the code takes apart or concatenates (package  *)
(*     names, suffixes, injected-package keys, the directory name and the *)
(*     metadata version) are sequences of one-character strings.  Other   *)
(*     strings are TLA+ strings.                                          *)
(*   - Optional[T] is a sequence of length 0 (None) or 1.                 *)
(*   - a pathlib.Path is the record [path |-> s]; its JSON encoding is    *)
(*     the object {"__type__": "Path", "__Path__": s}.                    *)
(*   - a Python dict is a function; a JSON object whose member order the  *)
(*     code depends on (injected_packages) is a sequence of <<key, value>>*)
(*     pairs in file order.                                               *)
(**************************************************************************)
EXTENDS Integers, Sequences, FiniteSets, TLC

VARIABLES
    venv_name,   \* self.venv_dir.name
    store,       \* the PipxMetadata instance's fields
    file,        \* venv_dir / pipx_metadata.json
    origin,      \* history: the store state whose successful write made `file`
    lastOp,      \* history: the last call made by the owning workflow
    lastResult,  \* history: how that call ended for its caller
    lastIO       \* history: what the operating system did during that call

vars == <<venv_name, store, file, origin, lastOp, lastResult, lastIO>>

----------------------------------------------------------------------------
(* Bounds of the model *)

\* most injected packages a workflow injects into one store
MaxInjected == 2
\* longest injected-package key a load may produce
MaxKeyLen == 3

----------------------------------------------------------------------------
(* Strings *)

None == <<>>
Some(x) == <<x>>

\* code points of the characters used by the model's strings
CharOrd == ("-" :> 45) @@ ("." :> 46) @@ ("0" :> 48) @@ ("1" :> 49) @@
           ("2" :> 50) @@ ("3" :> 51) @@ ("4" :> 52) @@ ("5" :> 53) @@
           ("6" :> 54) @@ ("9" :> 57) @@ ("a" :> 97) @@ ("b" :> 98) @@
           ("x" :> 120)

\* Python's str < str: lexicographic by code point, a proper prefix is smaller
RECURSIVE StrLess(_, _)
StrLess(s, t) ==
    IF t = <<>> THEN FALSE
    ELSE IF s = <<>> THEN TRUE
    ELSE IF Head(s) = Head(t) THEN StrLess(Tail(s), Tail(t))
    ELSE CharOrd[Head(s)] < CharOrd[Head(t)]

\* s.startswith(t)
StartsWith(s, t) == Len(t) <= Len(s) /\ SubSeq(s, 1, Len(t)) = t

\* `sub in s` for two strings: substring containment
IsSubstring(sub, s) ==
    \E i \in 1..(Len(s) + 1) :
        i + Len(sub) - 1 <= Len(s) /\ SubSeq(s, i, i + Len(sub) - 1) = sub

\* s.replace(old, ""): every non-overlapping occurrence of old, scanning from
\* the left, is removed; an empty old leaves s as it is
RECURSIVE StrRemoveAll(_, _)
StrRemoveAll(s, old) ==
    IF old = <<>> \/ s = <<>> THEN s
    ELSE IF StartsWith(s, old)
         THEN StrRemoveAll(SubSeq(s, Len(old) + 1, Len(s)), old)
         ELSE <<Head(s)>> \o StrRemoveAll(Tail(s), old)

\* sorted(keys), as json.dump(sort_keys=True) orders the members of an object
RECURSIVE SortedKeys(_)
SortedKeys(S) ==
    IF S = {} THEN <<>>
    ELSE LET m == CHOOSE k \in S : \A j \in S \ {k} : StrLess(k, j)
         IN  <<m>> \o SortedKeys(S \ {m})

----------------------------------------------------------------------------
(* Path values and their JSON encoding *)

\* pathlib.Path(s): the empty string is the current directory
PathOf(s) == [path |-> IF s = "" THEN "." ELSE s]

\* str(p)
PathStr(p) == p.path

\* JsonEncoderHandlesPath.default on a Path
JsonEncodePath(p) == ("__type__" :> "Path") @@ ("__Path__" :> PathStr(p))

\* _json_decoder_object_hook on a JSON object
JsonDecoderObjectHook(json_dict) ==
    IF /\ "__type__" \in DOMAIN json_dict
       /\ json_dict["__type__"] = "Path"
       /\ "__Path__" \in DOMAIN json_dict
    THEN PathOf(json_dict["__Path__"])
    ELSE json_dict

----------------------------------------------------------------------------
(* PackageInfo *)

\* the fields of PackageInfo that have no default
RequiredKeys ==
    {"package", "package_or_url", "pip_args", "include_dependencies",
     "include_apps", "apps", "app_paths", "apps_of_dependencies",
     "app_paths_of_dependencies", "package_version"}

\* the fields of PackageInfo that have a default, with their defaults
PackageInfoDefaults ==
    [man_pages |-> <<>>, man_paths |-> <<>>,
     man_pages_of_dependencies |-> <<>>, man_paths_of_dependencies |-> <<>>,
     suffix |-> <<>>, pinned |-> FALSE]

PackageInfoKeys == RequiredKeys \cup DOMAIN PackageInfoDefaults

\* fields holding List[Path], and fields holding Dict[str, List[Path]]
PathListKeys == {"app_paths", "man_paths"}
PathDictKeys == {"app_paths_of_dependencies", "man_paths_of_dependencies"}

\* PackageInfo(**data) raises TypeError on a missing required argument or an
\* unexpected keyword
PackageInfoArgsOk(data) ==
    RequiredKeys \subseteq DOMAIN data /\ DOMAIN data \subseteq PackageInfoKeys

\* PackageInfo(**data): absent defaulted fields take their defaults
PackageInfoNew(data) ==
    [k \in PackageInfoKeys |->
        IF k \in DOMAIN data THEN data[k] ELSE PackageInfoDefaults[k]]

\* dataclasses.asdict(p): a dict with one key per field
Asdict(p) == [k \in DOMAIN p |-> p[k]]

\* json.dump of one serialized PackageInfo: every Path goes through
\* JsonEncoderHandlesPath.default, everything else is encoded structurally
JsonDumpPackage(d) ==
    [k \in DOMAIN d |->
        IF k \in PathListKeys
        THEN [i \in DOMAIN d[k] |-> JsonEncodePath(d[k][i])]
        ELSE IF k \in PathDictKeys
        THEN [dep \in DOMAIN d[k] |->
                [i \in DOMAIN d[k][dep] |-> JsonEncodePath(d[k][dep][i])]]
        ELSE d[k]]

\* json.load of one stored package object: the object hook sees every nested
\* JSON object
JsonLoadPackage(j) ==
    [k \in DOMAIN j |->
        IF k \in PathListKeys
        THEN [i \in DOMAIN j[k] |-> JsonDecoderObjectHook(j[k][i])]
        ELSE IF k \in PathDictKeys
        THEN [dep \in DOMAIN j[k] |->
                [i \in DOMAIN j[k][dep] |-> JsonDecoderObjectHook(j[k][dep][i])]]
        ELSE j[k]]

----------------------------------------------------------------------------
(* PipxMetadata: construction and serialization *)

\* a version tag that the loader's ladder does not list
UnlistedMetadataVersion == <<"0", ".", "6">>

\* __METADATA_VERSION__
METADATA_VERSION == <<"0", ".", "5">>

\* the main_package that __init__ builds
DefaultMainPackage ==
    [package |-> None, package_or_url |-> None, pip_args |-> <<>>,
     include_dependencies |-> FALSE, include_apps |-> TRUE, apps |-> <<>>,
     app_paths |-> <<>>, apps_of_dependencies |-> <<>>,
     app_paths_of_dependencies |-> <<>>, man_pages |-> <<>>,
     man_paths |-> <<>>, man_pages_of_dependencies |-> <<>>,
     man_paths_of_dependencies |-> <<>>, package_version |-> "",
     suffix |-> PackageInfoDefaults.suffix,
     pinned |-> PackageInfoDefaults.pinned]

\* the fields __init__ assigns before it reads
DefaultStore ==
    [main_package |-> DefaultMainPackage, python_version |-> None,
     source_interpreter |-> None, venv_args |-> <<>>,
     injected_packages |-> <<>>]

\* to_dict
ToDict(st) ==
    [main_package |-> Asdict(st.main_package),
     python_version |-> st.python_version,
     source_interpreter |-> st.source_interpreter,
     venv_args |-> st.venv_args,
     injected_packages |->
        [name \in DOMAIN st.injected_packages |->
            Asdict(st.injected_packages[name])],
     pipx_metadata_version |-> METADATA_VERSION]

\* json.dump(..., sort_keys=True, cls=JsonEncoderHandlesPath): the stored text,
\* as the JSON value it denotes; the members of injected_packages are in
\* sorted key order
JsonDump(d) ==
    [main_package |-> JsonDumpPackage(d.main_package),
     python_version |-> d.python_version,
     source_interpreter |->
        IF d.source_interpreter = None THEN None
        ELSE Some(JsonEncodePath(d.source_interpreter[1])),
     venv_args |-> d.venv_args,
     injected_packages |->
        LET ks == SortedKeys(DOMAIN d.injected_packages)
        IN  [i \in DOMAIN ks |->
                <<ks[i], JsonDumpPackage(d.injected_packages[ks[i]])>>],
     pipx_metadata_version |-> d.pipx_metadata_version]

\* json.load(fh, object_hook=_json_decoder_object_hook) on stored text j
JsonLoad(j) ==
    [k \in DOMAIN j |->
        IF k = "main_package" THEN JsonLoadPackage(j[k])
        ELSE IF k = "source_interpreter"
        THEN (IF j[k] = None THEN None
              ELSE Some(JsonDecoderObjectHook(j[k][1])))
        ELSE IF k = "injected_packages"
        THEN [i \in DOMAIN j[k] |-> <<j[k][i][1], JsonLoadPackage(j[k][i][2])>>]
        ELSE j[k]]

----------------------------------------------------------------------------
(* PipxMetadata: loading *)

\* d with d[k] = v assigned (a dict store: the key is added or overwritten)
DictSet(d, k, v) ==
    [x \in DOMAIN d \cup {k} |-> IF x = k THEN v ELSE d[x]]

\* the test of the first branch of _convert_legacy_metadata:
\*   metadata_dict["pipx_metadata_version"] in (self.__METADATA_VERSION__)
\* the parenthesised operand is the string itself, so `in` is substring
\* containment
IsCurrentVersion(v) == IsSubstring(v, METADATA_VERSION)

\* _convert_legacy_metadata with the 0.4 branch merged into the 0.2/0.3 one:
\* a 0.4 file loses its source_interpreter
ConvertLegacyMetadataMerged(metadata_dict, name) ==
    LET v == metadata_dict["pipx_metadata_version"]
        main_package_data == metadata_dict["main_package"]
    IN  IF IsCurrentVersion(v)
        THEN [raised |-> FALSE, dict |-> metadata_dict]
        ELSE IF v \in {<<"0", ".", "2">>, <<"0", ".", "3">>, <<"0", ".", "4">>}
        THEN [raised |-> FALSE,
              dict |-> DictSet(metadata_dict, "source_interpreter", None)]
        ELSE IF v = <<"0", ".", "1">>
        THEN [raised |-> FALSE,
              dict |->
                DictSet(
                    IF main_package_data["package"] # Some(name)
                    THEN DictSet(metadata_dict, "main_package",
                            DictSet(main_package_data, "suffix",
                                StrRemoveAll(name, main_package_data["package"][1])))
                    ELSE metadata_dict,
                    "source_interpreter", None)]
        ELSE [raised |-> TRUE, dict |-> metadata_dict]

\* _convert_legacy_metadata: [raised |-> the PipxError was raised,
\*                            dict |-> the returned metadata_dict]
ConvertLegacyMetadata(metadata_dict, name) ==
    LET v == metadata_dict["pipx_metadata_version"]
        main_package_data == metadata_dict["main_package"]
    IN  IF IsCurrentVersion(v)
        THEN [raised |-> FALSE, dict |-> metadata_dict]
        ELSE IF v = <<"0", ".", "4">>
        THEN [raised |-> FALSE, dict |-> DictSet(metadata_dict, "pinned", FALSE)]
        ELSE IF v \in {<<"0", ".", "2">>, <<"0", ".", "3">>}
        THEN [raised |-> FALSE,
              dict |-> DictSet(metadata_dict, "source_interpreter", None)]
        ELSE IF v = <<"0", ".", "1">>
        THEN [raised |-> FALSE,
              dict |->
                DictSet(
                    IF main_package_data["package"] # Some(name)
                    THEN DictSet(metadata_dict, "main_package",
                            DictSet(main_package_data, "suffix",
                                StrRemoveAll(name, main_package_data["package"][1])))
                    ELSE metadata_dict,
                    "source_interpreter", None)]
        ELSE [raised |-> TRUE, dict |-> metadata_dict]

\* the dict comprehension of from_dict: entries are taken in file order and a
\* later entry replaces an earlier one under the same key
RECURSIVE InjectedFromEntries(_)
InjectedFromEntries(entries) ==
    IF entries = <<>> THEN <<>>
    ELSE LET n    == Len(entries)
             name == entries[n][1]
             data == entries[n][2]
             sfx  == IF "suffix" \in DOMAIN data THEN data["suffix"] ELSE <<>>
         IN  DictSet(InjectedFromEntries(SubSeq(entries, 1, n - 1)),
                     name \o sfx, PackageInfoNew(data))

\* from_dict on store st: [result |-> how the call ended, st |-> the store
\* afterwards].  The fields are assigned in order, so an exception leaves the
\* assignments made before it.
FromDict(st, input_dict, name) ==
    LET conv == ConvertLegacyMetadata(input_dict, name)
        d    == conv.dict
        st1  == [st EXCEPT !.main_package = PackageInfoNew(d["main_package"])]
        st4  == [st1 EXCEPT
                    !.python_version = d["python_version"],
                    !.source_interpreter =
                        IF "source_interpreter" \in DOMAIN d
                           /\ d["source_interpreter"] # None
                        THEN Some(PathOf(PathStr(d["source_interpreter"][1])))
                        ELSE None,
                    !.venv_args = d["venv_args"]]
        entries == d["injected_packages"]
    IN  IF conv.raised THEN [result |-> "PipxError_version", st |-> st]
        ELSE IF ~PackageInfoArgsOk(d["main_package"])
        THEN [result |-> "TypeError", st |-> st]
        ELSE IF \E i \in DOMAIN entries : ~PackageInfoArgsOk(entries[i][2])
        THEN [result |-> "TypeError", st |-> st4]
        ELSE [result |-> "returned",
              st |-> [st4 EXCEPT
                        !.injected_packages = InjectedFromEntries(entries)]]

\* read with an except clause that catches PermissionError only: a missing
\* file raises FileNotFoundError to the caller
ReadCallMissingUncaught(st, f, name, io) ==
    IF f.kind = "absent"
    THEN [result |-> "OSError", io |-> "read_failed", st |-> st]
    ELSE IF io = "fail"
    THEN [result |-> "returned", io |-> "read_failed", st |-> st]
    ELSE IF f.kind = "partial"
    THEN [result |-> "JSONDecodeError", io |-> "ok", st |-> st]
    ELSE LET r == FromDict(st, JsonLoad(f.doc), name)
         IN  [result |-> r.result, io |-> "ok", st |-> r.st]

\* what the except clause of read leaves in the store: it returns without
\* assigning any field
ReadOnOSError(st) == st

\* read on store st with file f; io = "fail" is an OSError from open or from
\* reading (unreadable, permission denied); a missing file is an OSError
\* whatever io is.  A file that is not a complete JSON text makes json.load
\* raise JSONDecodeError, which is not an OSError.
ReadCall(st, f, name, io) ==
    IF f.kind = "absent" \/ io = "fail"
    THEN [result |-> "returned", io |-> "read_failed", st |-> ReadOnOSError(st)]
    ELSE IF f.kind = "partial"
    THEN [result |-> "JSONDecodeError", io |-> "ok", st |-> st]
    ELSE LET r == FromDict(st, JsonLoad(f.doc), name)
         IN  [result |-> r.result, io |-> "ok", st |-> r.st]

----------------------------------------------------------------------------
(* PipxMetadata: writing *)

\* _validate_before_write without the include_apps test
ValidBeforeWriteIdentityOnly(st) ==
    ~ ( \/ st.main_package.package = None
        \/ st.main_package.package_or_url = None )

\* _validate_before_write returns without raising
ValidBeforeWrite(st) ==
    ~ ( \/ st.main_package.package = None
        \/ st.main_package.package_or_url = None
        \/ ~st.main_package.include_apps )

\* write with an except clause that logs the warning and raises again
WriteOnOSErrorRaised == "OSError"

\* how write ends for its caller once OSError has been caught: the except
\* clause logs a warning and falls off the end
WriteOnOSError == "returned"

AbsentFile == [kind |-> "absent", doc |-> <<>>]
PartialFile == [kind |-> "partial", doc |-> <<>>]
JsonFile(doc) == [kind |-> "json", doc |-> doc]

\* the file after open(..., "w") succeeded and the with block was left:
\* opening truncates; an OSError while json.dump emits leaves the part written
\* so far (io = "dump_failed"); an OSError from the final flush and close may
\* come after everything reached the file (io = "close_failed")
FileAfterOpen(st, io) ==
    IF io = "dump_failed" THEN PartialFile ELSE JsonFile(JsonDump(ToDict(st)))

\* write on store st with file f; io is what the operating system does
WriteCall(st, f, io) ==
    IF ~ValidBeforeWrite(st)
    THEN [result |-> "PipxError_corrupt", io |-> "none", file |-> f]
    ELSE IF io = "ok"
    THEN [result |-> "returned", io |-> io, file |-> FileAfterOpen(st, io)]
    ELSE IF io = "open_failed"
    THEN [result |-> WriteOnOSError, io |-> io, file |-> f]
    ELSE [result |-> WriteOnOSError, io |-> io, file |-> FileAfterOpen(st, io)]

----------------------------------------------------------------------------
(* Values the owning workflow assigns *)

S_a == <<"a">>
S_b == <<"b">>
S_x == <<"x">>
S_ab == <<"a", "b">>
S_dash_x == <<"-", "x">>

\* a PackageInfo as the installer builds it; rich fills the entry-point and
\* manual-page fields, paths included
MkPackage(package, package_or_url, include_apps, suffix, pinned, rich) ==
    [package |-> package, package_or_url |-> package_or_url,
     pip_args |-> IF rich THEN <<"--pre">> ELSE <<>>,
     include_dependencies |-> rich, include_apps |-> include_apps,
     apps |-> IF rich THEN <<"app">> ELSE <<>>,
     app_paths |-> IF rich THEN <<PathOf("bin/app")>> ELSE <<>>,
     apps_of_dependencies |-> IF rich THEN <<"dep">> ELSE <<>>,
     app_paths_of_dependencies |->
        IF rich THEN ("dep" :> <<PathOf("bin/dep")>>) ELSE <<>>,
     man_pages |-> IF rich THEN <<"man1/app.1">> ELSE <<>>,
     man_paths |-> IF rich THEN <<PathOf("man1/app.1")>> ELSE <<>>,
     man_pages_of_dependencies |-> IF rich THEN <<"man1/dep.1">> ELSE <<>>,
     man_paths_of_dependencies |->
        IF rich THEN ("dep" :> <<PathOf("man1/dep.1"), PathOf("")>>) ELSE <<>>,
     package_version |-> IF rich THEN "1.0" ELSE "",
     suffix |-> suffix, pinned |-> pinned]

\* main packages a workflow assigns: complete ones, and the three ways of
\* leaving one incomplete
MainPackages ==
    {MkPackage(Some(S_ab), Some("ab"), TRUE, <<>>, FALSE, TRUE),
     MkPackage(Some(S_ab), Some("./ab"), TRUE, S_dash_x, TRUE, FALSE),
     MkPackage(None, Some("ab"), TRUE, <<>>, FALSE, FALSE),
     MkPackage(Some(S_ab), None, TRUE, <<>>, FALSE, FALSE),
     MkPackage(Some(S_ab), Some("ab"), FALSE, <<>>, FALSE, TRUE)}

\* packages a workflow injects, each kept under package + suffix
InjectedPackages ==
    {MkPackage(Some(S_b), Some("b"), TRUE, <<>>, FALSE, TRUE),
     MkPackage(Some(S_b), Some("b"), FALSE, S_x, TRUE, FALSE)}

\* values of (python_version, source_interpreter, venv_args)
Environments ==
    {[python_version |-> None, source_interpreter |-> None, venv_args |-> <<>>],
     [python_version |-> Some("3.12.1"), source_interpreter |-> None,
      venv_args |-> <<"--system-site-packages">>],
     [python_version |-> Some("3.12.1"),
      source_interpreter |-> Some(PathOf("/usr/bin/python3")),
      venv_args |-> <<>>]}

----------------------------------------------------------------------------
(* Operations *)

NoOrigin == [kind |-> "none", st |-> DefaultStore]

\* every injected-package key of st is within the model's bound
KeysBounded(st) ==
    \A k \in DOMAIN st.injected_packages : Len(k) <= MaxKeyLen

\* PipxMetadata(venv_dir, read=rd): a constructor that raises yields no store,
\* and the workflow keeps the one it had
Construct ==
    \E rd \in BOOLEAN : \E io \in {"ok", "fail"} :
        LET r == IF rd THEN ReadCall(DefaultStore, file, venv_name, io)
                 ELSE [result |-> "returned", io |-> "none", st |-> DefaultStore]
        IN  /\ KeysBounded(r.st)
            /\ store' = IF r.result = "returned" THEN r.st ELSE store
            /\ lastOp' = "init"
            /\ lastResult' = r.result
            /\ lastIO' = r.io
            /\ UNCHANGED <<venv_name, file, origin>>

Mutated ==
    /\ lastOp' = "mutate"
    /\ lastResult' = "returned"
    /\ lastIO' = "none"
    /\ UNCHANGED <<venv_name, file, origin>>

\* self.main_package = PackageInfo(...)
SetMainPackage ==
    \E p \in MainPackages :
        /\ store' = [store EXCEPT !.main_package = p]
        /\ Mutated

\* self.python_version = ...; self.source_interpreter = ...; self.venv_args = ...
SetEnvironment ==
    \E e \in Environments :
        /\ store' = [store EXCEPT !.python_version = e.python_version,
                                  !.source_interpreter = e.source_interpreter,
                                  !.venv_args = e.venv_args]
        /\ Mutated

\* self.injected_packages[package + suffix] = PackageInfo(...)
Inject ==
    \E p \in InjectedPackages :
        LET key == p.package[1] \o p.suffix
        IN  /\ Cardinality(DOMAIN store.injected_packages \cup {key}) <= MaxInjected
            /\ store' = [store EXCEPT
                            !.injected_packages = DictSet(@, key, p)]
            /\ Mutated

\* del self.injected_packages[key]
Uninject ==
    \E key \in DOMAIN store.injected_packages :
        /\ store' = [store EXCEPT
                        !.injected_packages =
                            [k \in DOMAIN @ \ {key} |-> @[k]]]
        /\ Mutated

\* self.write()
Write ==
    \E io \in {"ok", "open_failed", "dump_failed", "close_failed"} :
        LET r == WriteCall(store, file, io)
        IN  /\ file' = r.file
            /\ origin' = IF r.io = "ok" THEN [kind |-> "written", st |-> store]
                         ELSE IF r.io \in {"dump_failed", "close_failed"}
                         THEN [kind |-> "failed", st |-> DefaultStore]
                         ELSE origin
            /\ lastOp' = "write"
            /\ lastResult' = r.result
            /\ lastIO' = r.io
            /\ UNCHANGED <<venv_name, store>>

\* self.read()
Read ==
    \E io \in {"ok", "fail"} :
        LET r == ReadCall(store, file, venv_name, io)
        IN  /\ KeysBounded(r.st)
            /\ store' = r.st
            /\ lastOp' = "read"
            /\ lastResult' = r.result
            /\ lastIO' = r.io
            /\ UNCHANGED <<venv_name, file, origin>>

\* a workflow in a directory that holds no metadata file yet, holding a store
\* built with read=False
Init ==
    /\ venv_name = S_ab
    /\ store = DefaultStore
    /\ file = AbsentFile
    /\ origin = NoOrigin
    /\ lastOp = "none"
    /\ lastResult = "returned"
    /\ lastIO = "none"

Next ==
    \/ Construct
    \/ SetMainPackage
    \/ SetEnvironment
    \/ Inject
    \/ Uninject
    \/ Write
    \/ Read

Spec == Init /\ [][Next]_vars

----------------------------------------------------------------------------
(* Loading a file that some release of pipx left in the directory *)

\* the keys of a stored package that releases before 0.3 and before 0.5 did
\* not write
ManKeys ==
    {"man_pages", "man_paths", "man_pages_of_dependencies",
     "man_paths_of_dependencies"}

\* a stored package object: the JSON text of p without the keys in dropped
StoredPackage(p, dropped) ==
    LET j == JsonDumpPackage(Asdict(p))
    IN  [k \in DOMAIN j \ dropped |-> j[k]]

\* stored main_package objects for package "ab": as 0.1 wrote it (no man
\* pages, no suffix, no pinned), as 0.3 and 0.4 wrote it (no pinned), and as
\* 0.5 writes it
StoredMainPackages ==
    {StoredPackage(MkPackage(Some(S_ab), Some("ab"), TRUE, <<>>, FALSE, TRUE),
                   ManKeys \cup {"suffix", "pinned"}),
     StoredPackage(MkPackage(Some(S_ab), Some("ab"), TRUE, S_dash_x, FALSE, TRUE),
                   {"pinned"}),
     StoredPackage(MkPackage(Some(S_ab), Some("ab"), TRUE, S_dash_x, TRUE, FALSE),
                   {})}

\* stored injected_packages objects, members in file order: none; one current
\* entry; two entries whose name + suffix coincide; one entry stored under its
\* package + suffix key
StoredInjected ==
    {<<>>,
     << <<S_b, StoredPackage(
                 MkPackage(Some(S_b), Some("b"), TRUE, <<>>, TRUE, TRUE), {})>> >>,
     << <<S_a, StoredPackage(
                 MkPackage(Some(S_a), Some("a"), TRUE, S_b, FALSE, FALSE),
                 {"pinned"})>>,
        <<S_ab, StoredPackage(
                 MkPackage(Some(S_ab), Some("ab"), FALSE, <<>>, FALSE, TRUE),
                 ManKeys \cup {"suffix", "pinned"})>> >>,
     << <<S_b \o S_x, StoredPackage(
                 MkPackage(Some(S_b), Some("b"), TRUE, S_x, FALSE, TRUE),
                 {"pinned"})>> >>}

\* stored version tags: the five released ones, a later one, and strings that
\* no release wrote
StoredVersions ==
    {<<"0", ".", "1">>, <<"0", ".", "2">>, <<"0", ".", "3">>, <<"0", ".", "4">>,
     <<"0", ".", "5">>, <<"0", ".", "6">>, <<"9", ".", "9">>, <<>>, <<"0">>,
     <<"5">>, <<"0", ".">>, <<".", "5">>, <<".">>}

\* stored files: source_interpreter is a Path, null, or (si = "nokey") not a
\* key of the file
StoredDocs ==
    {LET base == [main_package |-> m, python_version |-> Some("3.8.2"),
                  venv_args |-> <<"--system-site-packages">>,
                  injected_packages |-> inj, pipx_metadata_version |-> v]
     IN  IF si = "nokey" THEN base
         ELSE DictSet(base, "source_interpreter",
                IF si = "null" THEN None
                ELSE Some(JsonEncodePath(PathOf("/usr/bin/python3")))) :
        m \in StoredMainPackages, inj \in StoredInjected,
        v \in StoredVersions, si \in {"nokey", "null", "path"}}

\* names of the environment directory: the package name, and the package name
\* followed by a suffix
DirNames == {S_ab, S_ab \o S_dash_x, S_ab \o <<"-">> \o S_ab, S_ab \o S_ab}

\* a store that a workflow populated before it reads
PopulatedStore ==
    [main_package |-> MkPackage(Some(S_b), Some("b"), TRUE, <<>>, TRUE, TRUE),
     python_version |-> Some("3.12.1"),
     source_interpreter |-> Some(PathOf("/opt/python/bin/python3")),
     venv_args |-> <<>>,
     injected_packages |->
        (S_x :> MkPackage(Some(S_x), Some("x"), TRUE, <<>>, FALSE, FALSE))]

\* a directory holding a stored file, and a store built with read=False
InitStored ==
    /\ venv_name \in DirNames
    /\ store \in {DefaultStore, PopulatedStore}
    /\ file \in {JsonFile(d) : d \in StoredDocs}
    /\ origin = [kind |-> "foreign", st |-> DefaultStore]
    /\ lastOp = "none"
    /\ lastResult = "returned"
    /\ lastIO = "none"

NextStored ==
    \/ Read
    \/ Construct

SpecStored == InitStored /\ [][NextStored]_vars

----------------------------------------------------------------------------
(* Properties *)

\* the last call read the metadata file to its end (no OSError)
LoadedFile == lastOp \in {"read", "init"} /\ lastIO = "ok"

\* the version tags the loader is documented to recognize
RecognizedVersions ==
    {<<"0", ".", "1">>, <<"0", ".", "2">>, <<"0", ".", "3">>,
     <<"0", ".", "4">>, <<"0", ".", "5">>}

\* C1: a fresh store that reads the file a successful write produced equals,
\* field for field, the store that was written (paths are Path values again,
\* injected packages are under the same keys).
C1_RoundTrip ==
    (lastOp = "init" /\ lastIO = "ok" /\ origin.kind = "written")
        => (lastResult = "returned" /\ store = origin.st)

\* C1 restricted to stores whose injected packages all have an empty suffix:
\* the round trip the code does achieve.
RoundTripEmptySuffix ==
    ( /\ lastOp = "init" /\ lastIO = "ok" /\ origin.kind = "written"
      /\ \A k \in DOMAIN origin.st.injected_packages :
            origin.st.injected_packages[k].suffix = <<>> )
        => (lastResult = "returned" /\ store = origin.st)

\* C2: a read of a stored file whose version tag is not one of 0.1 .. 0.5
\* raises the unknown-metadata-version error and leaves every field of the
\* store as it was.
C2_UnknownVersion ==
    [][ ( /\ lastOp' = "read" /\ lastIO' = "ok" /\ file.kind = "json"
          /\ file.doc.pipx_metadata_version \notin RecognizedVersions )
            => (lastResult' = "PipxError_version" /\ store' = store) ]_vars

\* C3: a read that hits an I/O failure raises nothing and leaves the store in
\* its post-construction default state, whatever it held before.
C3_ReadFailureResets ==
    (lastOp = "read" /\ lastIO = "read_failed")
        => ( /\ lastResult = "returned"
             /\ store.main_package.package = None
             /\ store.main_package.package_or_url = None
             /\ store.main_package.include_apps
             /\ store.main_package = DefaultMainPackage
             /\ store.python_version = None
             /\ store.source_interpreter = None
             /\ store.venv_args = <<>>
             /\ store.injected_packages = <<>> )

\* C4: a write on a store whose main_package lacks package or package_or_url,
\* or has include_apps false, raises the internal-corruption error and changes
\* neither the file (absent stays absent, present keeps its content) nor the
\* store.
C4_ValidationGate ==
    [][ ( /\ lastOp' = "write"
          /\ \/ store.main_package.package = None
             \/ store.main_package.package_or_url = None
             \/ ~store.main_package.include_apps )
            => ( /\ lastResult' = "PipxError_corrupt"
                 /\ lastIO' = "none"
                 /\ file' = file
                 /\ store' = store ) ]_vars

C4_Witness ==
    /\ lastOp = "write" /\ lastResult = "PipxError_corrupt"
    /\ file.kind = "json"
    /\ store.main_package.package # None
    /\ store.main_package.package_or_url # None
    /\ ~store.main_package.include_apps

StoredDoc == file.doc
StoredMain == StoredDoc["main_package"]
StoredEntries == StoredDoc["injected_packages"]

\* the key under which stored entry i is to be kept: storedName + storedSuffix
EntryKey(i) ==
    StoredEntries[i][1] \o
        (IF "suffix" \in DOMAIN StoredEntries[i][2]
         THEN StoredEntries[i][2]["suffix"] ELSE <<>>)

\* C6: after loading a version 0.1 file in a directory named package + s with
\* s non-empty, main_package.suffix is s; in a directory named as the package
\* the suffix is the stored one (empty when none is stored); in both cases
\* source_interpreter is absent.
C6_LegacyUpcast01 ==
    (LoadedFile /\ StoredDoc["pipx_metadata_version"] = <<"0", ".", "1">>)
        => LET pkg == StoredMain["package"][1]
               s   == SubSeq(venv_name, Len(pkg) + 1, Len(venv_name))
           IN  /\ lastResult = "returned"
               /\ store.source_interpreter = None
               /\ (StartsWith(venv_name, pkg) /\ s # <<>>)
                    => store.main_package.suffix = s
               /\ venv_name = pkg
                    => store.main_package.suffix =
                        (IF "suffix" \in DOMAIN StoredMain
                         THEN StoredMain["suffix"] ELSE <<>>)

\* field k of the loaded PackageInfo rec is what the stored object data holds
\* for it, every stored path being a Path value in the same position
LoadedAsStored(rec, data, k) ==
    IF k \in PathListKeys
    THEN rec[k] = [i \in DOMAIN data[k] |-> [path |-> data[k][i]["__Path__"]]]
    ELSE IF k \in PathDictKeys
    THEN rec[k] = [dep \in DOMAIN data[k] |->
                    [i \in DOMAIN data[k][dep] |->
                        [path |-> data[k][dep][i]["__Path__"]]]]
    ELSE rec[k] = data[k]

C8_MissingFile ==
    [][ (lastOp' = "init" /\ file.kind = "absent")
            => ( /\ lastResult' = "returned"
                 /\ store'.main_package.package = None
                 /\ store'.main_package.package_or_url = None
                 /\ store'.main_package.include_apps = TRUE
                 /\ store'.python_version = None
                 /\ store'.source_interpreter = None
                 /\ store'.venv_args = <<>>
                 /\ store'.injected_packages = <<>>
                 /\ file'.kind = "absent" ) ]_vars

C8_Witness ==
    /\ lastOp = "init" /\ lastIO = "read_failed" /\ lastResult = "returned"
    /\ file.kind = "absent"
    /\ store.main_package.package = None
    /\ store.injected_packages = <<>>

\* C9: after a successful load the store holds one injected package per stored
\* entry, each under storedName + storedSuffix; no two stored entries end up
\* under one key.
C9_NoInjectedLost ==
    (LoadedFile /\ lastResult = "returned")
        => /\ Cardinality(DOMAIN store.injected_packages) = Len(StoredEntries)
           /\ \A i \in DOMAIN StoredEntries :
                EntryKey(i) \in DOMAIN store.injected_packages
           /\ \A i, j \in DOMAIN StoredEntries :
                i # j => EntryKey(i) # EntryKey(j)

\* C10: from a directory without a metadata file, as long as no I/O error
\* interrupted the write that made the file, an existing file is a complete
\* text with version "0.5" and a main_package that has package and
\* package_or_url and include_apps true; reading it never raises the
\* unknown-metadata-version error.
C10_PersistedFile ==
    (file.kind # "absent" /\ origin.kind # "failed")
        => /\ file.kind = "json"
           /\ origin.kind = "written"
           /\ StoredDoc["pipx_metadata_version"] = <<"0", ".", "5">>
           /\ StoredMain["package"] # None
           /\ StoredMain["package_or_url"] # None
           /\ StoredMain["include_apps"] = TRUE
           /\ LoadedFile => lastResult # "PipxError_version"

C10_Witness ==
    /\ lastOp = "read" /\ lastIO = "ok" /\ lastResult = "returned"
    /\ file.kind = "json" /\ origin.kind = "written"
    /\ store.main_package.package # None
    /\ store.injected_packages # <<>>

====
